---- MODULE Spec2Model ----
(***************************************************************************)
(* Model of src/commands/dev/gcs/server.rs: the TLS-terminating preview    *)
(* proxy of `wrangler dev`.  serve() binds a listener, runs an accept      *)
(* loop (tcp.incoming().filter_map(..)) that hands established TLS         *)
(* sessions to hyper, and for every request runs the service_fn closure,   *)
(* which snapshots the preview id, calls preview_request, rewrites the     *)
(* response and prints one log line.                                       *)
(***************************************************************************)
EXTENDS Integers, Sequences, FiniteSets, TLC

(***************************************************************************)
(* Bounds of the model.                                                    *)
(***************************************************************************)
MaxConns == 2
MaxReqs == 2
MaxUpdates == 1
MaxTime == 1

Conns == 1..MaxConns
Reqs == 1..MaxReqs
NoConn == 0

(***************************************************************************)
(* Strings.  A string is a sequence of tokens; a token stands for a run    *)
(* of bytes and ByteLen gives the length of the run.                       *)
(***************************************************************************)
PREVIEW_HOST == "rawhttp.cloudflareworkers.com"

\* A run of path characters long enough that the rewritten URI exceeds the
\* length limit of the URI parser while the inbound URI does not.
LongRun == "aaaa...(65500 bytes)"

ByteLen(tok) ==
  CASE tok = "https://" -> 8
    [] tok = PREVIEW_HOST -> 29
    [] tok = "localhost:8787" -> 14
    [] tok = "foo" -> 3
    [] tok = "x=1" -> 3
    [] tok = LongRun -> 65500
    [] OTHER -> 1

RECURSIVE StrLen(_)
StrLen(s) == IF s = <<>> THEN 0 ELSE ByteLen(Head(s)) + StrLen(Tail(s))

\* Length limit of hyper::Uri (u16::MAX - 1), applied by str::parse::<Uri>().
MAX_LEN == 65535 - 1

\* Bytes that end the authority component when a URI is parsed.
AuthorityEnd == {"/", "?", "#"}

\* Index of the first token of s, at or after i, that ends the authority;
\* Len(s) + 1 when there is none.
RECURSIVE AuthorityEndIndex(_, _)
AuthorityEndIndex(s, i) ==
  IF i > Len(s) THEN Len(s) + 1
  ELSE IF s[i] \in AuthorityEnd THEN i
  ELSE AuthorityEndIndex(s, i + 1)

InvalidUri == [ok |-> FALSE]

\* str::parse::<Uri>() on an absolute URI "https://<authority><path-and-query>":
\* the length check, the scheme, the authority up to the first '/', '?' or
\* '#', and the rest as path and query.
ParseUri(s) ==
  IF StrLen(s) > MAX_LEN THEN InvalidUri
  ELSE IF Len(s) < 2 \/ s[1] # "https://" THEN InvalidUri
  ELSE LET e == AuthorityEndIndex(s, 2)
       IN  [ok |-> TRUE,
            scheme |-> "https",
            authority |-> SubSeq(s, 2, e - 1),
            pq |-> SubSeq(s, e, Len(s))]

\* fn get_preview_url(path_string): format!("https://{}{}", PREVIEW_HOST, path).parse()
get_preview_url(path_string) ==
  ParseUri(<<"https://", PREVIEW_HOST>> \o path_string)

(***************************************************************************)
(* Header values.  A preview id is an arbitrary String; Bytes gives the    *)
(* bytes of each id of the model.                                          *)
(***************************************************************************)
IdAbc == "abc"
IdDef == "def"
IdNewline == "a<LF>b"
Ids == {IdAbc, IdDef, IdNewline}

Bytes(id) ==
  CASE id = IdAbc -> <<97, 98, 99>>
    [] id = IdDef -> <<100, 101, 102>>
    [] id = IdNewline -> <<97, 10, 98>>

\* HeaderValue::from_str accepts visible ASCII, tab and bytes >= 128.
IsValidHeaderByte(b) == (b >= 32 /\ b # 127) \/ b = 9

InvalidHeaderValue == [ok |-> FALSE]

\* HeaderValue::from_str(preview_id): the bytes are validated and copied.
HeaderValue_from_str(id) ==
  IF \A i \in 1..Len(Bytes(id)) : IsValidHeaderByte(Bytes(id)[i])
  THEN [ok |-> TRUE, value |-> id]
  ELSE InvalidHeaderValue

Absent == "<absent>"
HeaderNames == {"host", "cf-ew-preview"}

\* HeaderMap::insert: the value replaces every value held under the name.
HeaderInsert(headers, name, value) == [headers EXCEPT ![name] = value]

(***************************************************************************)
(* Inbound requests, as hyper hands them to the service: the request       *)
(* target is in origin form ("/foo?x=1") or in asterisk form ("*").        *)
(***************************************************************************)
OriginForm(pq) == [scheme |-> "", authority |-> <<>>, pq |-> pq]

NoHeaders == [n \in HeaderNames |-> Absent]

Inbound ==
  { [method |-> "GET", uri |-> OriginForm(<<"/", "foo", "?", "x=1">>),
     headers |-> [NoHeaders EXCEPT !["host"] = "localhost:8787",
                                   !["cf-ew-preview"] = "client-sent"]],
    [method |-> "OPTIONS", uri |-> OriginForm(<<"*">>), headers |-> NoHeaders],
    [method |-> "GET", uri |-> OriginForm(<<"/", LongRun>>),
     headers |-> NoHeaders] }

\* utils::get_path_as_str: the path and query of the URI as a string, ""
\* when the URI has none.
get_path_as_str(uri) ==
  IF uri.scheme = "" /\ uri.pq = <<>> THEN <<>>
  ELSE IF uri.pq = <<>> THEN <<"/">>
  ELSE uri.pq

\* headers::structure_request(&mut parts): the outbound transform may leave
\* the parts alone, set headers, or rewrite the URI of the parts.
Transforms == {"keep", "set headers", "rewrite uri"}

structure_request(parts, t) ==
  CASE t = "keep" -> parts
    [] t = "set headers" ->
         [parts EXCEPT !.headers = [n \in HeaderNames |-> "set-by-transform"]]
    [] t = "rewrite uri" ->
         [parts EXCEPT !.uri = OriginForm(<<"/", "rewritten">>)]

(***************************************************************************)
(* fn preview_request(req, client, preview_id) -> ResponseFuture.          *)
(* `transformed` is what structure_request left of the parts.  The result  *)
(* is the request handed to client.request, or a panic of one of the two   *)
(* expect() calls.                                                         *)
(***************************************************************************)
\* line 147: the path is read from the parts before structure_request runs.
RequestPath(req, transformed) == get_path_as_str(req.uri)

\* Faulty variant: the headers are set only where the request has none.
IdentityHeadersIfAbsent(headers, value) ==
  [n \in HeaderNames |->
     IF headers[n] # Absent THEN headers[n]
     ELSE IF n = "host" THEN PREVIEW_HOST ELSE value]

\* lines 152-160: host, then cf-ew-preview, inserted after structure_request.
IdentityHeaders(headers, value) ==
  HeaderInsert(HeaderInsert(headers, "host", PREVIEW_HOST), "cf-ew-preview", value)

preview_request(req, preview_id, transformed) ==
  LET path == RequestPath(req, transformed)
      hv == HeaderValue_from_str(preview_id)
      uri == get_preview_url(path)
  IN  IF ~hv.ok
        THEN [panic |-> TRUE, msg |-> "Could not create header for preview id"]
      ELSE IF ~uri.ok
        THEN [panic |-> TRUE, msg |-> "Could not get preview url"]
      ELSE [panic |-> FALSE,
            req |-> [method |-> transformed.method,
                     uri |-> uri,
                     headers |-> IdentityHeaders(transformed.headers, hv.value)]]

(***************************************************************************)
(* State.                                                                  *)
(***************************************************************************)
VARIABLES
  server,        \* position of serve(): "init", "running", "returned"
  startup,       \* what lines 27-95 did: "none" or a start-up outcome
  clock,         \* the local time, as Local::now() reads it
  serveResult,   \* value serve() returned: "none", "Ok", "Err"
  stdout,        \* lines printed by the accept loop and by serve()
  conn,          \* raw connection -> its state
  proto,         \* established connection -> negotiated HTTP version
  pending,       \* the connection whose handshake filter_map is awaiting
  sessions,      \* the Ok items the HTTP layer received from the stream
  preview_id,    \* the String inside Arc<Mutex<String>>
  guard,         \* holder of the Mutex: Free, Updater or Holder(r)
  idLog,         \* history: every value the preview id has held, in order
  req            \* request -> the state of its exchange

vars == <<server, startup, clock, serveResult, stdout, conn, proto, pending,
          sessions, preview_id, guard, idLog, req>>

Free == <<"free", 0>>
Updater == <<"updater", 0>>
Holder(r) == <<"request", r>>

Statuses == {200, 404}
Protocols == {"HTTP/1.1", "HTTP/2.0"}

\* server_config.host, the host name shown in the log line.
ConfigHost == "example.com"

IdleReq ==
  [pc |-> "idle", conn |-> NoConn, version |-> "", inbound |-> <<>>,
   snap |-> "", snapAt |-> 0, now |-> 0, sent |-> <<>>,
   result |-> <<>>, log |-> <<>>, trace |-> <<>>]

Init ==
  /\ server = "init"
  /\ startup = "none"
  /\ clock = 0
  /\ serveResult = "none"
  /\ stdout = <<>>
  /\ conn = [c \in Conns |-> "none"]
  /\ proto = [c \in Conns |-> ""]
  /\ pending = NoConn
  /\ sessions = {}
  /\ preview_id = IdAbc
  /\ guard = Free
  /\ idLog = <<IdAbc>>
  /\ req = [r \in Reqs |-> IdleReq]

(***************************************************************************)
(* serve(): start-up, lines 27-95 and 117-127.                             *)
(***************************************************************************)
StartupOutcomes == {"ok", "generate_cert failed", "bind failed",
                    "get_tls_acceptor failed"}

\* Faulty variant: a bind failure is not propagated.
StartupFatalExceptBind(outcome) == outcome \notin {"ok", "bind failed"}

\* Each `?` of lines 27, 94 and 95 returns the error to the caller of serve.
StartupFatal(outcome) == outcome # "ok"

Startup(outcome) ==
  /\ server = "init"
  /\ startup' = outcome
  /\ IF StartupFatal(outcome)
       THEN /\ server' = "returned"
            /\ serveResult' = "Err"
            /\ stdout' = stdout
       ELSE /\ server' = "running"
            /\ serveResult' = serveResult
            /\ stdout' = Append(stdout, "Listening on https://")
  /\ UNCHANGED <<clock, conn, proto, pending, sessions, preview_id, guard, idLog, req>>

\* Time passes.
Tick ==
  /\ clock < MaxTime
  /\ clock' = clock + 1
  /\ UNCHANGED <<server, startup, serveResult, stdout, conn, proto, pending,
                 sessions, preview_id, guard, idLog, req>>

\* A client opens a TCP connection to the bound listener.
ClientConnect(c) ==
  /\ server = "running"
  /\ conn[c] = "none"
  /\ \A d \in Conns : d < c => conn[d] # "none"
  /\ conn' = [conn EXCEPT ![c] = "backlog"]
  /\ UNCHANGED <<startup, clock, server, serveResult, stdout, proto, pending, sessions,
                 preview_id, guard, idLog, req>>

(***************************************************************************)
(* The accept loop, lines 96-115, polled by the hyper Server of lines      *)
(* 117-120.  filter_map holds at most one pending future: the next item of *)
(* tcp.incoming() is polled only when no handshake is being awaited.       *)
(***************************************************************************)
\* Faulty variant: the handshake error is yielded as an item of the stream.
HandshakeFailureItemErr == "Err"

\* What the closure yields for a failed handshake (line 111).
HandshakeFailureItem == "None"

\* The server future of line 129 and the return of line 133: an Err item of
\* the accept stream resolves the hyper Server with that error, which is
\* printed, and serve returns Ok(()).
ServerAfterItem(item) == IF item = "Err" THEN "returned" ELSE server

\* Faulty variant: the error of the server future is returned (`server.await?`).
ResultAfterItemPropagated(item) == IF item = "Err" THEN "Err" ELSE serveResult

ResultAfterItem(item) == IF item = "Err" THEN "Ok" ELSE serveResult
StdoutAfterItem(out, item) ==
  IF item = "Err" THEN Append(out, "eprintln: server error") ELSE out

\* s is Ok(x): the closure awaits tls_acceptor.accept(x) (line 106).
AcceptOk(c) ==
  /\ server = "running"
  /\ pending = NoConn
  /\ conn[c] = "backlog"
  /\ conn' = [conn EXCEPT ![c] = "handshaking"]
  /\ pending' = c
  /\ UNCHANGED <<startup, clock, server, serveResult, stdout, proto, sessions, preview_id,
                 guard, idLog, req>>

\* s is Err(e): lines 101-104 print and yield Some(Err(e)).
AcceptErr ==
  /\ server = "running"
  /\ pending = NoConn
  /\ server' = ServerAfterItem("Err")
  /\ serveResult' = ResultAfterItem("Err")
  /\ stdout' = StdoutAfterItem(Append(stdout, "Failed to accept client"), "Err")
  /\ UNCHANGED <<startup, clock, conn, proto, pending, sessions, preview_id, guard, idLog, req>>

\* line 107: the handshake completed, the session is yielded as Some(Ok(x)).
HandshakeOk(c, p) ==
  /\ server = "running"
  /\ pending = c
  /\ conn' = [conn EXCEPT ![c] = "established"]
  /\ proto' = [proto EXCEPT ![c] = p]
  /\ sessions' = sessions \cup {c}
  /\ pending' = NoConn
  /\ UNCHANGED <<startup, clock, server, serveResult, stdout, preview_id, guard, idLog, req>>

\* lines 108-112: the handshake failed; two lines are printed, the stream is
\* dropped with the closure's future.
HandshakeFail(c) ==
  /\ server = "running"
  /\ pending = c
  /\ conn' = [conn EXCEPT ![c] = "dropped"]
  /\ pending' = NoConn
  /\ sessions' = sessions
  /\ server' = ServerAfterItem(HandshakeFailureItem)
  /\ serveResult' = ResultAfterItem(HandshakeFailureItem)
  /\ stdout' = StdoutAfterItem(Append(stdout, "Client connection error"),
                               HandshakeFailureItem)
  /\ UNCHANGED <<startup, clock, proto, preview_id, guard, idLog, req>>

(***************************************************************************)
(* The external uploader: it replaces the String under the Mutex.          *)
(***************************************************************************)
UpdaterLock ==
  /\ guard = Free
  /\ Len(idLog) <= MaxUpdates
  /\ guard' = Updater
  /\ UNCHANGED <<startup, clock, server, serveResult, stdout, conn, proto, pending, sessions,
                 preview_id, idLog, req>>

UpdaterStore(v) ==
  /\ guard = Updater
  /\ preview_id' = v
  /\ idLog' = Append(idLog, v)
  /\ guard' = Free
  /\ UNCHANGED <<startup, clock, server, serveResult, stdout, conn, proto, pending, sessions, req>>

(***************************************************************************)
(* The service_fn closure, lines 43-88, one call per request.              *)
(***************************************************************************)
InFlight(r) == req[r].pc \in {"locked", "ready", "awaiting"}

\* line 46, preview_id.lock(): the request has arrived on an established
\* session and the closure takes the Mutex.  An HTTP/1.1 connection carries
\* one exchange at a time; HTTP/2 streams are handled concurrently.
LockGuard(r, c, inbound) ==
  /\ req[r].pc = "idle"
  /\ \A q \in Reqs : q < r => req[q].pc # "idle"
  /\ c \in sessions
  /\ conn[c] = "established"
  /\ proto[c] = "HTTP/1.1" => \A q \in Reqs : ~(InFlight(q) /\ req[q].conn = c)
  /\ guard = Free
  /\ guard' = Holder(r)
  /\ req' = [req EXCEPT ![r] = [@ EXCEPT !.pc = "locked", !.conn = c,
                                         !.inbound = <<inbound>>]]
  /\ UNCHANGED <<startup, clock, server, serveResult, stdout, conn, proto, pending, sessions,
                 preview_id, idLog>>

\* Faulty variant: the String is cloned once, when serve() starts.
SnapshotAtStartup(r) == idLog[1]

\* Faulty variant: the String is cloned per connection (line 41) and reused by
\* every request of the connection.
SnapshotPerConnection(r) ==
  LET earlier == {q \in Reqs : q # r /\ req[q].conn = req[r].conn /\ req[q].snapAt > 0}
  IN  IF earlier = {} THEN preview_id
      ELSE req[CHOOSE q \in earlier : \A p \in earlier : req[q].snapAt <= req[p].snapAt].snap

\* line 46, .to_owned(): the value the request copies out of the Mutex.
SnapshotValue(r) == preview_id

\* Faulty variant: the MutexGuard is bound to a variable the async block captures.
GuardKeptByRequest(r) == Holder(r)

\* line 46, end of statement: the temporary MutexGuard is dropped.
GuardAfterSnapshot(r) == Free

\* lines 46-60: copy the id, release the guard, capture version, method
\* and path; the async block of line 62 is returned, not yet polled.
Snapshot(r) ==
  /\ req[r].pc = "locked"
  /\ guard = Holder(r)
  /\ guard' = GuardAfterSnapshot(r)
  /\ req' = [req EXCEPT ![r] = [@ EXCEPT !.pc = "ready",
                                         !.snap = SnapshotValue(r),
                                         !.snapAt = Len(idLog),
                                         !.version = proto[req[r].conn],
                                         !.now = clock,
                                         !.trace = Append(@, "split")]]
  /\ UNCHANGED <<startup, clock, server, serveResult, stdout, conn, proto, pending, sessions,
                 preview_id, idLog>>

\* Faulty variant: the async block reads the shared id when it is polled.
DispatchIdReadAtPoll(r) == preview_id

\* line 67: the id handed to preview_request is the copy taken at line 46.
DispatchId(r) == req[r].snap

\* Faulty variant: the panic unwinds the task of the whole connection.
PanicScopeConnection(r) == {q \in Reqs : req[q].conn = req[r].conn}

\* lines 159 and 162, expect(): the exchanges a panic of r's async block
\* ends; the block is polled in the task of its own exchange.
PanicScope(r) == {r}

\* lines 64-69, first poll of the async block: preview_request applies
\* structure_request, substitutes the identity and hands the request to the
\* client, or panics in the substitution.
Dispatch(r, t) ==
  /\ req[r].pc = "ready"
  /\ LET out == preview_request(req[r].inbound[1], DispatchId(r),
                                structure_request(req[r].inbound[1], t))
     IN  req' = [q \in Reqs |->
                   IF q = r /\ out.panic
                     THEN [req[q] EXCEPT
                             !.pc = "panicked",
                             !.result = <<[kind |-> "panic", msg |-> out.msg]>>,
                             !.trace = Append(@, "outbound")]
                   ELSE IF q = r
                     THEN [req[q] EXCEPT
                             !.pc = "awaiting",
                             !.sent = <<out.req>>,
                             !.trace = @ \o <<"outbound", "identity", "dispatch">>]
                   ELSE IF out.panic /\ q \in PanicScope(r) /\ InFlight(q)
                     THEN [req[q] EXCEPT !.pc = "aborted"]
                   ELSE req[q]]
  /\ UNCHANGED <<startup, clock, server, serveResult, stdout, conn, proto, pending, sessions,
                 preview_id, guard, idLog>>

\* Faulty variant: the time is read when the line is printed.
LogTimestampAtPrint(r) == clock

\* lines 50 and 80: the time recorded when the request arrived.
LogTimestamp(r) == req[r].now

\* line 78: the log line of an exchange.
LogLine(r, status) ==
  [time |-> LogTimestamp(r),
   method |-> req[r].inbound[1].method,
   host |-> ConfigHost,
   path |-> get_path_as_str(req[r].inbound[1].uri),
   version |-> req[r].version,
   status |-> status]

\* Faulty variant: a line is printed for a failed exchange as well.
PrintedLinesAlways(r, ok, status) == <<LogLine(r, status)>>

\* lines 69-86: println! comes after both `?`, so an exchange prints its
\* line when it has its rewritten response and nothing when it failed.
PrintedLines(r, ok, status) == IF ok THEN <<LogLine(r, status)>> ELSE <<>>

\* headers::destructure_response(&mut parts): the inbound transform
\* rewrites the headers of the response, may replace its status, or fails.
InboundTransforms == {"rewrite headers", "rewrite status", "fail"}

RewrittenStatus == 404

destructure_response(parts, t) ==
  CASE t = "rewrite headers" -> [ok |-> TRUE, status |-> parts.status]
    [] t = "rewrite status" -> [ok |-> TRUE, status |-> RewrittenStatus]
    [] t = "fail" -> [ok |-> FALSE]

\* Faulty variant: a response outside 2xx is turned into an error.
ResponseIsErrorUnless2xx(status) == status < 200 \/ status > 299

\* line 69, `.await?`: a response of any status is Ok(resp).
ResponseIsError(status) == FALSE

\* Faulty variant: the request is dispatched again after a failed call.
RetryAfterTransportFailure(r) == "ready"

\* line 69, `.await?`: the error is returned, the exchange ends.
AfterTransportFailure(r) == "err"

\* lines 69-87: the backend answered with some status; destructure_response
\* rewrites the parts or fails (`?`), then the line is printed and the
\* response returned.
BackendRespond(r, status, t) ==
  /\ req[r].pc = "awaiting"
  /\ LET resp == destructure_response([status |-> status], t)
     IN  req' = [req EXCEPT ![r] =
                   IF ResponseIsError(status)
                     THEN [@ EXCEPT !.pc = "err",
                                    !.result = <<[kind |-> "Err", cause |-> "status"]>>,
                                    !.log = @ \o PrintedLines(r, FALSE, status)]
                   ELSE IF resp.ok
                     THEN [@ EXCEPT !.pc = "ok",
                                    !.result = <<[kind |-> "Ok",
                                                  status |-> resp.status]>>,
                                    !.log = @ \o PrintedLines(r, TRUE, resp.status),
                                    !.trace = @ \o <<"inbound", "log", "return">>]
                   ELSE [@ EXCEPT !.pc = "err",
                                  !.result = <<[kind |-> "Err",
                                                cause |-> "destructure_response"]>>,
                                  !.log = @ \o PrintedLines(r, FALSE, status),
                                  !.trace = Append(@, "inbound")]]
  /\ UNCHANGED <<startup, clock, server, serveResult, stdout, conn, proto, pending, sessions,
                 preview_id, guard, idLog>>

\* Faulty variant: a transport failure fails every call outstanding on the client.
FailureScopeWholeClient(r) == Reqs

\* The requests a transport failure of r's backend call makes fail.
FailureScope(r) == {r}

\* line 69, `.await?`: the backend call failed at transport level.
BackendFail(r) ==
  /\ req[r].pc = "awaiting"
  /\ req' = [q \in Reqs |->
               IF q \in FailureScope(r) /\ req[q].pc = "awaiting"
                 THEN [req[q] EXCEPT !.pc = AfterTransportFailure(q),
                                     !.result = <<[kind |-> "Err",
                                                   cause |-> "client.request"]>>,
                                     !.log = @ \o PrintedLines(q, FALSE, 0)]
                 ELSE req[q]]
  /\ UNCHANGED <<startup, clock, server, serveResult, stdout, conn, proto, pending, sessions,
                 preview_id, guard, idLog>>

(***************************************************************************)
(* Specifications.                                                         *)
(***************************************************************************)
PollListener == AcceptErr \/ \E c \in Conns : AcceptOk(c)

HandlerStep ==
  \E r \in Reqs :
    \/ Snapshot(r)
    \/ \E t \in Transforms : Dispatch(r, t)

Next ==
  \/ \E o \in StartupOutcomes : Startup(o)
  \/ Tick
  \/ \E c \in Conns : ClientConnect(c)
  \/ \E c \in Conns : AcceptOk(c)
  \/ AcceptErr
  \/ \E c \in Conns, p \in Protocols : HandshakeOk(c, p)
  \/ \E c \in Conns : HandshakeFail(c)
  \/ UpdaterLock
  \/ \E v \in Ids : UpdaterStore(v)
  \/ \E r \in Reqs, c \in Conns, i \in Inbound : LockGuard(r, c, i)
  \/ \E r \in Reqs : Snapshot(r)
  \/ \E r \in Reqs, t \in Transforms : Dispatch(r, t)
  \/ \E r \in Reqs, s \in Statuses, t \in InboundTransforms :
       BackendRespond(r, s, t)
  \/ \E r \in Reqs : BackendFail(r)

Spec == Init /\ [][Next]_vars

\* The runtime polls the server future and every spawned task that can make
\* progress; clients, the backend and the uploader are under no obligation.
FairSpec == Spec /\ WF_vars(PollListener) /\ WF_vars(HandlerStep)

(***************************************************************************)
(* Properties.                                                             *)
(***************************************************************************)
Printed(line) == \E i \in 1..Len(stdout) : stdout[i] = line

Dispatched(r) == req[r].sent # <<>>
SentHeader(r, name) == req[r].sent[1].headers[name]
SentUri(r) == req[r].sent[1].uri
InboundPath(r) == get_path_as_str(req[r].inbound[1].uri)

\* C1: after a connection whose TLS handshake failed, a client connection
\* waiting at the listener is eventually accepted by the accept loop.
C1_AcceptedAfterHandshakeFailure ==
  \A c \in Conns, d \in Conns :
    [](conn[c] = "dropped" /\ conn[d] = "backlog" => <>(conn[d] # "backlog"))

\* C2: once an accept error has been logged the server is still serving.
C2_AcceptErrorNotFatal ==
  Printed("Failed to accept client") => server = "running"

\* C3: while the server runs, a connection waiting at the listener can be
\* accepted whatever the state of the connections accepted before it,
\* a handshake in progress included.
C3_AcceptNeverWaits ==
  \A c \in Conns :
    server = "running" /\ conn[c] = "backlog" => ENABLED AcceptOk(c)

\* C4: the copy of the preview id a request takes when the handler begins
\* is the value the id has at that instant, the cf-ew-preview header the
\* request is dispatched with is that copy, and no later step (an update
\* of the id included) changes the copy or the dispatched header.
C4_HeaderIsSnapshot ==
  [][\A r \in Reqs :
       /\ req[r].pc = "locked" /\ req'[r].pc = "ready"
            => req'[r].snap = preview_id
       /\ req[r].pc = "ready" /\ req'[r].pc = "awaiting"
            => req'[r].sent[1].headers["cf-ew-preview"] = req[r].snap
       /\ req[r].pc \in {"ready", "awaiting"} => req'[r].snap = req[r].snap
       /\ Dispatched(r) => req'[r].sent = req[r].sent]_vars

\* ... reached: an exchange completed with a header that is no longer the
\* current preview id.
C4_Witness ==
  \E r \in Reqs :
    /\ req[r].pc = "ok"
    /\ SentHeader(r, "cf-ew-preview") # preview_id
    /\ SentHeader(r, "cf-ew-preview") = req[r].snap

\* C5 as stated: at the step that dispatches a request, the id it carries
\* is the latest value set to the preview id.
C5_LatestAtDispatch ==
  [][\A r \in Reqs :
       req[r].pc = "ready" /\ req'[r].pc = "awaiting"
         => req'[r].sent[1].headers["cf-ew-preview"] = preview_id]_vars

\* C5 as amended: the id a request is dispatched with is the latest value
\* set to the preview id before the request took its snapshot.
C5_LatestAtSnapshot ==
  \A r \in Reqs :
    Dispatched(r) => SentHeader(r, "cf-ew-preview") = idLog[req[r].snapAt]

\* ... reached: a backend call is outstanding and the id was replaced, by
\* a different value, after the request's snapshot.
C5_Witness ==
  \E r \in Reqs :
    /\ req[r].pc = "awaiting"
    /\ req[r].snapAt < Len(idLog)
    /\ SentHeader(r, "cf-ew-preview") # preview_id

\* C6: of two requests on the same connection, with the id updated between
\* their snapshots, the later one is dispatched with the updated value.
C6_FreshPerRequest ==
  \A r1 \in Reqs, r2 \in Reqs :
    /\ req[r1].conn = req[r2].conn
    /\ 0 < req[r1].snapAt
    /\ req[r1].snapAt < req[r2].snapAt
    /\ Dispatched(r2)
    => SentHeader(r2, "cf-ew-preview") = idLog[req[r2].snapAt]

\* ... reached: two dispatched requests of one connection carry different
\* ids.
C6_Witness ==
  \E r1 \in Reqs, r2 \in Reqs :
    /\ req[r1].conn = req[r2].conn
    /\ 0 < req[r1].snapAt
    /\ req[r1].snapAt < req[r2].snapAt
    /\ Dispatched(r1)
    /\ Dispatched(r2)
    /\ SentHeader(r2, "cf-ew-preview") # SentHeader(r1, "cf-ew-preview")

\* C7: no request holds the guard of the preview id once its snapshot is
\* taken, in particular not while its backend call is outstanding.
C7_GuardNotHeldAcrossCall ==
  \A r \in Reqs : req[r].pc \in {"ready", "awaiting"} => guard # Holder(r)

\* ... reached: while one backend call is outstanding the uploader holds
\* the guard, or another request does.
C7_Witness ==
  \E r \in Reqs :
    /\ req[r].pc = "awaiting"
    /\ \/ guard = Updater
       \/ \E q \in Reqs : q # r /\ guard = Holder(q)

\* C8: the URI of a dispatched request is "https://" + PREVIEW_HOST + P, P
\* the path and query of the inbound URI.
C8_UriIsHostPlusPath ==
  \A r \in Reqs :
    Dispatched(r) =>
      /\ SentUri(r).scheme = "https"
      /\ SentUri(r).authority = <<PREVIEW_HOST>>
      /\ SentUri(r).pq = InboundPath(r)

\* C9: a step in which the backend call of request a fails at transport
\* level changes nothing of a request b on another connection, nor the
\* server or any connection.
C9_FailureIsolated ==
  [][\A a \in Reqs, b \in Reqs :
       /\ req[a].pc = "awaiting"
       /\ req'[a].pc = "err"
       /\ req'[a].result[1].cause = "client.request"
       /\ req[b].conn # req[a].conn
       => /\ req'[b] = req[b]
          /\ server' = server
          /\ conn' = conn
          /\ sessions' = sessions]_vars

\* ... reached: request a failed at transport level and request b, on
\* another connection, completed with its response and its log line.
C9_Witness ==
  \E a \in Reqs, b \in Reqs :
    /\ req[a].pc = "err"
    /\ req[a].result[1].cause = "client.request"
    /\ req[b].pc = "ok"
    /\ req[b].conn # req[a].conn
    /\ req[b].log # <<>>

\* C10: a request whose lifecycle failed returned an error value to the
\* HTTP layer.
C10_FailureIsErrorValue ==
  \A r \in Reqs :
    req[r].pc \in {"err", "panicked"} => req[r].result[1].kind = "Err"

C12_OnlyEstablishedSessions ==
  /\ \A c \in sessions : conn[c] = "established"
  /\ \A r \in Reqs : req[r].pc # "idle" => req[r].conn \in sessions
  /\ \A c \in Conns : conn[c] = "dropped" => c \notin sessions
  /\ Printed("Client connection error") /\ ~Printed("Failed to accept client")
       => server = "running"

\* ... reached: one handshake failed and a request was answered on
\* another connection.
C12_Witness ==
  /\ \E c \in Conns : conn[c] = "dropped"
  /\ \E r \in Reqs : req[r].pc = "ok" /\ conn[req[r].conn] = "established"

Ended(r) == req[r].pc \in {"ok", "err", "panicked"}

\* C13 as stated: every exchange that ended printed exactly one log line.
C13_OneLinePerExchange ==
  \A r \in Reqs : Ended(r) => Len(req[r].log) = 1

\* C13 as amended: an exchange that ended with a response printed exactly
\* one log line, an exchange that ended with a failure printed none.
C13_OneLinePerResponse ==
  \A r \in Reqs :
    /\ req[r].pc = "ok" => Len(req[r].log) = 1
    /\ req[r].pc \in {"err", "panicked"} => Len(req[r].log) = 0

\* ... reached: one exchange ended with a response and one with a failure.
C13_Witness ==
  \E a \in Reqs, b \in Reqs :
    /\ req[a].pc = "ok"
    /\ Len(req[a].log) = 1
    /\ req[b].pc = "err"

\* C14 as stated: only a transport failure of the backend call makes a
\* request end with an error.
C14_OnlyTransportFailureIsError ==
  \A r \in Reqs : req[r].pc = "err" => req[r].result[1].cause = "client.request"

\* C14 as amended: a request ends with an error only for a transport
\* failure of the backend call or a failure of the inbound transform, never
\* for the status of the response; a response whose transform succeeded is
\* returned with the status the transform left.
C14_StatusIsNoError ==
  \A r \in Reqs :
    /\ req[r].pc = "err"
         => req[r].result[1].cause \in {"client.request", "destructure_response"}
    /\ req[r].pc = "ok"
         => req[r].result[1].kind = "Ok" /\ req[r].result[1].status \in Statuses

\* ... reached: a response with a status outside 2xx was returned.
C14_Witness ==
  \E r \in Reqs :
    /\ req[r].pc = "ok"
    /\ req[r].result[1].kind = "Ok"
    /\ req[r].result[1].status = 404

\* C15: when the bind failed, serve has returned an error, no connection
\* was accepted and no request handled.
C15_BindFailureIsFatal ==
  startup = "bind failed" =>
    /\ server = "returned"
    /\ serveResult = "Err"
    /\ \A c \in Conns : conn[c] = "none"
    /\ sessions = {}
    /\ \A r \in Reqs : req[r].pc = "idle"

\* ... reached: the bind failed.
C15_Witness == startup = "bind failed" /\ serveResult = "Err"

\* The lifecycle of an exchange.
Lifecycle ==
  <<"split", "outbound", "identity", "dispatch", "inbound", "log", "return">>

IsPrefix(s, t) == Len(s) <= Len(t) /\ \A i \in 1..Len(s) : s[i] = t[i]

\* C16: the steps an exchange has taken are an initial part of the
\* lifecycle, each step taken at most once and in order; a dispatched
\* request went through the outbound transform and the identity
\* substitution, a returned response through the inbound transform and the
\* log.
C16_LinearLifecycle ==
  \A r \in Reqs :
    /\ IsPrefix(req[r].trace, Lifecycle)
    /\ Dispatched(r) => Len(req[r].trace) >= 4
    /\ req[r].pc = "ok" => req[r].trace = Lifecycle
    /\ req[r].pc = "err" => Len(req[r].trace) \in {4, 5}

\* ... reached: one exchange went through the whole lifecycle and another
\* ended at the dispatch, its backend call having failed.
C16_Witness ==
  \E a \in Reqs, b \in Reqs :
    /\ req[a].trace = Lifecycle
    /\ req[b].pc = "err"
    /\ Len(req[b].trace) = 4

\* C17: a dispatched request carries PREVIEW_HOST as its host header and
\* the snapshot of the request as its cf-ew-preview header.
C17_IdentityOverwrites ==
  \A r \in Reqs :
    Dispatched(r) =>
      /\ SentHeader(r, "host") = PREVIEW_HOST
      /\ SentHeader(r, "cf-ew-preview") = req[r].snap

\* ... reached: a request that came with a host and a cf-ew-preview header
\* of its own was dispatched.
C17_Witness ==
  \E r \in Reqs :
    /\ Dispatched(r)
    /\ req[r].inbound[1].headers["host"] # Absent
    /\ req[r].inbound[1].headers["cf-ew-preview"] \notin {Absent, req[r].snap}

\* C18: an exchange printed at most one log line, and only when it ended
\* with a response: the line carries the time, method and path recorded
\* when the request arrived and the status of the rewritten response; an
\* exchange that ended with an error returned it and printed nothing.
C18_LogLine ==
  \A r \in Reqs :
    /\ Len(req[r].log) <= 1
    /\ req[r].log # <<>> =>
         /\ req[r].pc = "ok"
         /\ req[r].log[1].time = req[r].now
         /\ req[r].log[1].method = req[r].inbound[1].method
         /\ req[r].log[1].path = InboundPath(r)
         /\ req[r].log[1].status = req[r].result[1].status
    /\ req[r].pc = "err" => req[r].log = <<>> /\ req[r].result[1].kind = "Err"

\* ... reached: a line was printed for a request that arrived before the
\* clock advanced, and another exchange ended with an error.
C18_Witness ==
  \E a \in Reqs, b \in Reqs :
    /\ req[a].log # <<>>
    /\ req[a].log[1].time < clock
    /\ req[b].pc = "err"

\* C19: a request whose snapshot is no header value, or whose rewritten URI
\* cannot be constructed, is never dispatched, and a dispatched request has
\* a cf-ew-preview header and a URI whose authority is PREVIEW_HOST.
C19_DispatchedIsWellFormed ==
  \A r \in Reqs :
    /\ req[r].pc = "panicked" => ~Dispatched(r)
    /\ Dispatched(r) =>
         /\ HeaderValue_from_str(req[r].snap).ok
         /\ get_preview_url(InboundPath(r)).ok
         /\ SentHeader(r, "cf-ew-preview") # Absent
         /\ SentUri(r).authority = <<PREVIEW_HOST>>

\* C20: once start-up succeeded, serve returns Ok whenever it returns, a
\* server error included, which is only printed; serve returns an error only
\* when start-up failed.
C20_RuntimeErrorNotReturned ==
  /\ startup = "ok" /\ server = "returned" => serveResult = "Ok"
  /\ Printed("eprintln: server error") => serveResult = "Ok"
  /\ serveResult = "Err" =>
       startup \in {"generate_cert failed", "bind failed", "get_tls_acceptor failed"}

\* ... reached: the server loop ended with an error and serve returned.
C20_Witness ==
  /\ Printed("eprintln: server error")
  /\ server = "returned"
  /\ serveResult = "Ok"

====
